---- MODULE Spec2Model ----
(***************************************************************************)
(* A model of the rbot client library: the facade operations of core.rs   *)
(* and modules.rs, the blocking round trip of hostfn::send_message and    *)
(* the busy-poll wait loops built on top of them.                         *)
(*                                                                         *)
(* One logical thread of control (the user script) calls facade           *)
(* operations; the host answers each request with a frame                  *)
(* [type, size, bytes] and wakes the script from bot_sleep.               *)
(*                                                                         *)
(* f32 angles are modelled in fixed point, one unit = 0.1 degree, so that *)
(* 89.6 is 896, 360.0 is 3600 and the slack 0.5 is 5.  Cooldowns, speeds, *)
(* coordinates and timestamps are abstract integers.                      *)
(***************************************************************************)
EXTENDS Integers, Sequences, FiniteSets, TLC

VARIABLES
    pc,        \* where the script is: "idle", "tcp_send", "decode", "sleep", "panicked"
    op,        \* the facade operation the script called last
    args,      \* its arguments
    fn,        \* the function whose request was handed to send_message last
    inflight,  \* requests handed to tcp_send and not yet answered by the host
    reply,     \* the host-returned frame send_message holds, NoBuf when it holds none
    trace,     \* what the current call did so far: sends, receives, sleeps
    received,  \* the response send_message returned last in the current call
    polls,     \* the values (angle, cooldown) the wait loop read, in order
    result,    \* what the call returned, NoResult while it runs
    settled    \* the server reached the state the wait is waiting for

vars == <<pc, op, args, fn, inflight, reply, trace, received, polls, result, settled>>

----------------------------------------------------------------------------
(* Bounds *)

\* The host answers at most MaxPolls polls of one wait with "not yet".
MaxPolls == 3

\* An area scan lists at most MaxScan objects.
MaxScan == 3

----------------------------------------------------------------------------
(* Data domains the script and the host draw from *)

ComponentIds == {0, 1, 2}
GlobalAngles == {900}
Slacks       == {-5, 0, 5}
Angles       == {0, 900}
Coords       == {0, 2}
Speeds       == {-1, 2}
ErrorCodes   == {1, 7}
ReportedAngles == {895, 896, 899, 900, 2700}
Cooldowns    == {-1, 0, 5}
Timestamps   == {0, 12}
Values       == {0, 1}

----------------------------------------------------------------------------
(* modules.rs: enum Module *)

Teleporter == 0
Radar      == Teleporter + 1
ForceField == Radar + 1
Laser      == ForceField + 1
Mine       == Laser + 1
Repair     == Mine + 1
Thruster   == Repair + 1
Scanner    == Thruster + 1
GPS        == Scanner + 1

Module == {Teleporter, Radar, ForceField, Laser, Mine, Repair, Thruster, Scanner, GPS}

----------------------------------------------------------------------------
(* errors.rs: MessageError, and Result values *)

BadCommand(code) == [tag |-> "BadCommand", code |-> code]
InvalidResponse  == [tag |-> "InvalidResponse"]

Ok(v)  == [tag |-> "Ok", val |-> v]
Err(e) == [tag |-> "Err", err |-> e]
Unit   == <<>>

NoResult == [tag |-> "None"]
NoBuf    == [typ |-> "none"]
NoResponse == [variant |-> "none"]

IsOk(r)  == r.tag = "Ok"
IsErr(r) == r.tag = "Err"

----------------------------------------------------------------------------
(* rbot_messages::MessageType: the response variants and their payloads *)

Variants == {"Empty", "RState", "RComponentStatus", "RModuleStatus", "RRadar",
             "RLaser", "RScan", "RGPS", "RTime", "RRepair", "Error"}

ScanLists == {<<>>,
              <<[tag |-> "component", kind |-> "motherboard", x |-> 1, y |-> 2,
                 buffs |-> <<>>]>>}

Payloads(variant) ==
    CASE variant = "RState"           -> {[angle |-> a] : a \in ReportedAngles}
      [] variant = "RComponentStatus" -> {[cooldown |-> c] : c \in Cooldowns}
      [] variant = "RModuleStatus"    -> {[cooldown |-> c] : c \in Cooldowns}
      [] variant = "RTime"            -> {[timestamp |-> t] : t \in Timestamps}
      [] variant = "RScan"            -> {[objects |-> l] : l \in ScanLists}
      [] variant = "Error"            -> {[error_code |-> k] : k \in ErrorCodes}
      [] OTHER                        -> {[value |-> v] : v \in Values}

Response(variant, m) == [variant |-> variant, m |-> m]

Responses == UNION {{Response(v, m) : m \in Payloads(v)} : v \in Variants}

----------------------------------------------------------------------------
(* hostfn.rs: the frame [type, size, bytes] the host returns.  shape is   *)
(* the variant whose encoding the bytes hold; "garbage" holds none.       *)

Frame(typ, shape, m) == [typ |-> typ, shape |-> shape, m |-> m]

WellFormed == {Frame(r.variant, r.variant, r.m) : r \in Responses}

Malformed == {Frame("RState", "garbage", [value |-> 0]),
              Frame("Error", "RTime", [timestamp |-> 0])}

Frames == WellFormed \cup Malformed

\* msg::decode_message(&bytes, typ): the variant typ names, or a failure
decode_message(frame) ==
    IF frame.shape = frame.typ /\ frame.typ \in Variants
    THEN Ok(Response(frame.typ, frame.m))
    ELSE Err([tag |-> "DecodeError"])

----------------------------------------------------------------------------
(* rbot_messages::messages: the requests *)

MsgUse(component_id, sticky) ==
    [type |-> "MsgUse", component_id |-> component_id, sticky |-> sticky]
MsgVelocity(x, y, speed) == [type |-> "MsgVelocity", x |-> x, y |-> y, speed |-> speed]
MsgAngle(angle) == [type |-> "MsgAngle", angle |-> angle]
MsgState == [type |-> "MsgState", value |-> 0]
MsgComponentStatusQuery(component_id) ==
    [type |-> "MsgComponentStatusQuery", component_id |-> component_id]
MsgTime == [type |-> "MsgTime", value |-> 0]
MsgModuleStatusQuery(module_id) ==
    [type |-> "MsgModuleStatusQuery", module_id |-> module_id]
MsgTeleport(x, y) == [type |-> "MsgTeleport", x |-> x, y |-> y]
MsgRadar == [type |-> "MsgRadar", value |-> 0]
MsgLaser(angle) == [type |-> "MsgLaser", angle |-> angle]
MsgForceField == [type |-> "MsgForceField", value |-> 0]
MsgMine == [type |-> "MsgMine", value |-> 0]
MsgRepair(component_id) == [type |-> "MsgRepair", component_id |-> component_id]
MsgThrust(angle) == [type |-> "MsgThrust", angle |-> angle]
MsgScan == [type |-> "MsgScan", value |-> 0]
MsgGPS == [type |-> "MsgGPS", value |-> 0]

----------------------------------------------------------------------------
(* rotations.rs *)

Abs(n) == IF n < 0 THEN -n ELSE n

\* angle + (-90. * component_id as f32)
transform_rotation_to_component(component_id, angle) ==
    angle + (-900 * component_id)

\* angle + (90. * component_id as f32)
transform_rotation_from_component(component_id, angle) ==
    angle + (900 * component_id)

\* ((angle - other_angle + 180.0).rem_euclid(360.0) - 180.0).abs()
angle_distance(angle, other_angle) ==
    LET angle_difference == angle - other_angle
    IN  Abs(((angle_difference + 1800) % 3600) - 1800)

----------------------------------------------------------------------------
(* How each facade function maps the response to its result *)

\* core.rs use_component: Error(m) => BadCommand, _ => Ok(())
use_component_match(response) ==
    IF response.variant = "Error"
    THEN Err(BadCommand(response.m.error_code))
    ELSE Ok(Unit)

\* core.rs velocity: Error(m) => BadCommand, _ => Ok(())
velocity_match(response) ==
    IF response.variant = "Error"
    THEN Err(BadCommand(response.m.error_code))
    ELSE Ok(Unit)

\* core.rs rotate: Error(m) => BadCommand, _ => Ok(())
rotate_match(response) ==
    IF response.variant = "Error"
    THEN Err(BadCommand(response.m.error_code))
    ELSE Ok(Unit)

\* a state whose catch-all arm reports a bad command
state_match_catchall(response) ==
    IF response.variant = "Error" THEN Err(BadCommand(response.m.error_code))
    ELSE IF response.variant = "RState" THEN Ok(response.m)
    ELSE Err(BadCommand(0))

\* core.rs state: Error(m) => BadCommand, RState(m) => Ok(m), _ => InvalidResponse
state_match(response) ==
    IF response.variant = "Error" THEN Err(BadCommand(response.m.error_code))
    ELSE IF response.variant = "RState" THEN Ok(response.m)
    ELSE Err(InvalidResponse)

\* core.rs component_state
component_state_match(response) ==
    IF response.variant = "Error" THEN Err(BadCommand(response.m.error_code))
    ELSE IF response.variant = "RComponentStatus" THEN Ok(response.m)
    ELSE Err(InvalidResponse)

\* core.rs time: RTime(m) => Ok(m.timestamp)
time_match(response) ==
    IF response.variant = "Error" THEN Err(BadCommand(response.m.error_code))
    ELSE IF response.variant = "RTime" THEN Ok(response.m.timestamp)
    ELSE Err(InvalidResponse)

\* a match_message that loses the server's error code
match_message_nocode(response, response_type) ==
    IF response.variant = "Error" THEN Err(BadCommand(0))
    ELSE IF response.variant = response_type THEN Ok(response.m)
    ELSE Err(InvalidResponse)

\* modules.rs macro match_message!(msg, MessageType::V(m) => Ok(m))
match_message(response, response_type) ==
    IF response.variant = "Error" THEN Err(BadCommand(response.m.error_code))
    ELSE IF response.variant = response_type THEN Ok(response.m)
    ELSE Err(InvalidResponse)

status_match(response)      == match_message(response, "RModuleStatus")
teleport_match(response)    == match_message(response, "Empty")
radar_match_laser(response) == match_message(response, "RLaser")
radar_match(response)       == match_message(response, "RRadar")
laser_match(response)       == match_message(response, "RLaser")
force_field_match(response) == match_message(response, "Empty")
mine_match(response)        == match_message(response, "Empty")
repair_match(response)      == match_message(response, "RRepair")
thrust_match(response)      == match_message(response, "Empty")
scan_match(response)        == match_message(response, "RScan")
gps_match(response)         == match_message(response, "RGPS")

\* The result the facade function f returns for a decoded response
Facade(f, response) ==
    CASE f = "use_component"   -> use_component_match(response)
      [] f = "velocity"        -> velocity_match(response)
      [] f = "rotate"          -> rotate_match(response)
      [] f = "state"           -> state_match(response)
      [] f = "component_state" -> component_state_match(response)
      [] f = "time"            -> time_match(response)
      [] f = "status"          -> status_match(response)
      [] f = "teleport"        -> teleport_match(response)
      [] f = "radar"           -> radar_match(response)
      [] f = "laser"           -> laser_match(response)
      [] f = "force_field"     -> force_field_match(response)
      [] f = "mine"            -> mine_match(response)
      [] f = "repair"          -> repair_match(response)
      [] f = "thrust"          -> thrust_match(response)
      [] f = "scan"            -> scan_match(response)
      [] f = "gps"             -> gps_match(response)

\* an at_rotation that compares the reported angle with the global angle
at_rotation_result_global(component_id, angle, slack, st) ==
    LET target_angle == angle
    IN  IF IsErr(st) THEN st
        ELSE Ok(angle_distance(target_angle, st.val.angle) < slack)

\* an at_rotation that takes the magnitude of the slack
at_rotation_result_abs(component_id, angle, slack, st) ==
    LET target_angle == transform_rotation_to_component(component_id, angle)
    IN  IF IsErr(st) THEN st
        ELSE Ok(angle_distance(target_angle, st.val.angle) < Abs(slack))

\* an at_rotation that also accepts a distance equal to the slack
at_rotation_result_leq(component_id, angle, slack, st) ==
    LET target_angle == transform_rotation_to_component(component_id, angle)
    IN  IF IsErr(st) THEN st
        ELSE Ok(angle_distance(target_angle, st.val.angle) <= slack)

\* an at_rotation with the comparison turned around
at_rotation_result_reversed(component_id, angle, slack, st) ==
    LET target_angle == transform_rotation_to_component(component_id, angle)
    IN  IF IsErr(st) THEN st
        ELSE Ok(slack < angle_distance(target_angle, st.val.angle))

\* core.rs at_rotation, given what state() returned
at_rotation_result(component_id, angle, slack, st) ==
    LET target_angle == transform_rotation_to_component(component_id, angle)
    IN  IF IsErr(st) THEN st
        ELSE Ok(angle_distance(target_angle, st.val.angle) < slack)

----------------------------------------------------------------------------
(* rotations.rs in f32 arithmetic.  A float is written as the integer number
   of Degree-ths of a degree it stands for; every float of the model is a
   multiple of 1/Degree, and so are their sums, so that the only rounding is
   the one to the F32Digits significant bits of an f32. *)

\* f32::MANTISSA_DIGITS
F32Digits == 24

\* 1.0 degree, in units of 2^-18 degree
Degree == 262144

RECURSIVE Pow2(_)
Pow2(n) == IF n = 0 THEN 1 ELSE 2 * Pow2(n - 1)

\* the exponent of the leading bit of n > 0
RECURSIVE Log2(_)
Log2(n) == IF n < 2 THEN 0 ELSE 1 + Log2(n \div 2)

\* the distance between the f32 values around n
Ulp(n) ==
    IF Abs(n) < Pow2(F32Digits) THEN 1 ELSE Pow2(Log2(Abs(n)) - (F32Digits - 1))

\* the f32 nearest to n, ties to the even significand
RoundF32(n) ==
    LET q    == Ulp(n)
        down == (Abs(n) \div q) * q
        rest == Abs(n) - down
        near == IF 2 * rest < q THEN down
                ELSE IF 2 * rest > q THEN down + q
                ELSE IF (Abs(n) \div q) % 2 = 0 THEN down ELSE down + q
    IN  IF n < 0 THEN -near ELSE near

\* the f32 sum of two f32 values
AddF32(a, b) == RoundF32(a + b)

\* the f32 product of a whole number of degrees a and an f32 value b
MulF32(a, b) == RoundF32((a \div Degree) * b)

\* component_id as f32
AsF32(i) == RoundF32(i * Degree)

\* angle + (-90. * component_id as f32)
transform_rotation_to_component_f32(component_id, angle) ==
    AddF32(angle, MulF32(-90 * Degree, AsF32(component_id)))

\* a transform back that turns the same way as the transform to the component
transform_rotation_from_component_f32_same(component_id, angle) ==
    AddF32(angle, MulF32(-90 * Degree, AsF32(component_id)))

\* angle + (90. * component_id as f32)
transform_rotation_from_component_f32(component_id, angle) ==
    AddF32(angle, MulF32(90 * Degree, AsF32(component_id)))

\* the component ids and the global angles the transforms are applied to
ComponentIdsI32 == -2..5
FloatAngles ==
    {RoundF32(n) : n \in {0, 1, 3, Degree \div 10, Degree, 45 * Degree,
                          64 * Degree + 2, 90 * Degree, 90 * Degree + 2,
                          180 * Degree + (Degree \div 2), 359 * Degree + 4,
                          -(Degree \div 4), -90 * Degree - 6}}

\* f32::rem_euclid: let r = self % rhs; if r < 0.0 { r + rhs.abs() } else { r }
\* where % is the exact remainder with the sign of self
RemEuclidF32(x, rhs) ==
    LET r == IF x < 0 THEN -(Abs(x) % Abs(rhs)) ELSE x % Abs(rhs)
    IN  IF r < 0 THEN AddF32(r, Abs(rhs)) ELSE r

\* an angle_distance without the final abs()
angle_distance_f32_signed(angle, other_angle) ==
    LET angle_difference == AddF32(angle, -other_angle)
    IN  AddF32(RemEuclidF32(AddF32(angle_difference, 180 * Degree), 360 * Degree),
               -180 * Degree)

\* an angle_distance whose remainder keeps the sign of the dividend
angle_distance_f32_rem(angle, other_angle) ==
    LET angle_difference == AddF32(angle, -other_angle)
        sum == AddF32(angle_difference, 180 * Degree)
        r   == IF sum < 0 THEN -(Abs(sum) % (360 * Degree)) ELSE sum % (360 * Degree)
    IN  Abs(AddF32(r, -180 * Degree))

\* an angle_distance that shifts by 90 instead of 180
angle_distance_f32_quarter(angle, other_angle) ==
    LET angle_difference == AddF32(angle, -other_angle)
    IN  Abs(AddF32(RemEuclidF32(AddF32(angle_difference, 90 * Degree), 360 * Degree),
                   -90 * Degree))

\* let angle_difference = angle - other_angle;
\* ((angle_difference + 180.0).rem_euclid(360.0) - 180.0).abs()
angle_distance_f32(angle, other_angle) ==
    LET angle_difference == AddF32(angle, -other_angle)
    IN  Abs(AddF32(RemEuclidF32(AddF32(angle_difference, 180 * Degree), 360 * Degree),
                   -180 * Degree))

\* the angles angle_distance is applied to: whole degrees, negative and beyond
\* 360, the fractional angles, and the angles 180.0 further on
WholeAngles ==
    {d * Degree : d \in {-450, -180, -90, -1, 0, 1, 45, 76, 90, 179, 180, 181,
                         270, 359, 360, 725}}
DistanceAngles ==
    WholeAngles \cup FloatAngles
        \cup {RoundF32(n) : n \in {76 * Degree + 2, 100 * Degree + 4}}
        \cup {AddF32(a, 180 * Degree) : a \in FloatAngles \cup {100 * Degree + 4}}

----------------------------------------------------------------------------
(* modules.rs scan_for_bot, given what scan() returned *)

\* crate::constants::tag and crate::constants::kind
COMPONENT   == "component"
BOT         == "bot"
MOTHERBOARD == "motherboard"

None    == [some |-> FALSE]
Some(o) == [some |-> TRUE, obj |-> o]

RMsgScanObject(x, y, tag, kind, buffs) ==
    [x |-> x, y |-> y, tag |-> tag, kind |-> kind, buffs |-> buffs]

\* the objects of the scans the host reports.  The coordinates are multiples
\* of 12, so that the f32 mean of up to four of them is a whole number.
ScanObjects ==
    {RMsgScanObject(36, 12, COMPONENT, MOTHERBOARD, <<"shield">>),
     RMsgScanObject(0, 12, COMPONENT, MOTHERBOARD, <<>>),
     RMsgScanObject(0, 24, COMPONENT, "laser", <<"haste">>),
     RMsgScanObject(12, 12, COMPONENT, "cannon", <<>>),
     RMsgScanObject(24, 0, COMPONENT, "laser", <<>>),
     RMsgScanObject(48, 48, "wall", "", <<>>)}

Scans == UNION {[1..n -> ScanObjects] : n \in 0..MaxScan}

RECURSIVE SumX(_)
SumX(objs) == IF objs = <<>> THEN 0 ELSE Head(objs).x + SumX(Tail(objs))

RECURSIVE SumY(_)
SumY(objs) == IF objs = <<>> THEN 0 ELSE Head(objs).y + SumY(Tail(objs))

\* a scan_for_bot that takes the last motherboard of the scan
scan_for_bot_result_last(scan_msg) ==
    IF IsErr(scan_msg) THEN scan_msg
    ELSE LET components == SelectSeq(scan_msg.val.objects, LAMBDA o : o.tag = COMPONENT)
             boards == SelectSeq(components, LAMBDA c : c.kind = MOTHERBOARD)
         IN  IF Len(components) = 0 THEN Ok(None)
             ELSE IF boards # <<>>
             THEN Ok(Some(RMsgScanObject(boards[Len(boards)].x, boards[Len(boards)].y,
                                         BOT, "", boards[Len(boards)].buffs)))
             ELSE Ok(Some(RMsgScanObject(SumX(components) \div Len(components),
                                         SumY(components) \div Len(components),
                                         BOT, "", <<>>)))

\* a scan_for_bot that averages although a motherboard was found
scan_for_bot_result_average(scan_msg) ==
    IF IsErr(scan_msg) THEN scan_msg
    ELSE LET components == SelectSeq(scan_msg.val.objects, LAMBDA o : o.tag = COMPONENT)
         IN  IF Len(components) = 0 THEN Ok(None)
             ELSE Ok(Some(RMsgScanObject(SumX(components) \div Len(components),
                                         SumY(components) \div Len(components),
                                         BOT, "", <<>>)))

\* a scan_for_bot that averages over every scanned object
scan_for_bot_result_unfiltered(scan_msg) ==
    IF IsErr(scan_msg) THEN scan_msg
    ELSE LET components == SelectSeq(scan_msg.val.objects, LAMBDA o : o.tag = COMPONENT)
             objects == scan_msg.val.objects
             boards == SelectSeq(components, LAMBDA c : c.kind = MOTHERBOARD)
         IN  IF Len(components) = 0 THEN Ok(None)
             ELSE IF boards # <<>>
             THEN Ok(Some(RMsgScanObject(boards[1].x, boards[1].y, BOT, "",
                                         boards[1].buffs)))
             ELSE Ok(Some(RMsgScanObject(SumX(objects) \div Len(objects),
                                         SumY(objects) \div Len(objects),
                                         BOT, "", <<>>)))

\* a scan_for_bot that reports an error when it finds no component
scan_for_bot_result_strict(scan_msg) ==
    IF IsErr(scan_msg) THEN scan_msg
    ELSE LET components == SelectSeq(scan_msg.val.objects, LAMBDA o : o.tag = COMPONENT)
             boards == SelectSeq(components, LAMBDA c : c.kind = MOTHERBOARD)
         IN  IF Len(components) = 0 THEN Err(InvalidResponse)
             ELSE IF boards # <<>>
             THEN Ok(Some(RMsgScanObject(boards[1].x, boards[1].y, BOT, "",
                                         boards[1].buffs)))
             ELSE Ok(Some(RMsgScanObject(SumX(components) \div Len(components),
                                         SumY(components) \div Len(components),
                                         BOT, "", <<>>)))

\* let scan_msg = scan()?; keep the objects tagged component; none: Ok(None);
\* the first of kind motherboard: its position and buffs; else the mean
scan_for_bot_result(scan_msg) ==
    IF IsErr(scan_msg) THEN scan_msg
    ELSE LET components == SelectSeq(scan_msg.val.objects, LAMBDA o : o.tag = COMPONENT)
             boards == SelectSeq(components, LAMBDA c : c.kind = MOTHERBOARD)
         IN  IF Len(components) = 0 THEN Ok(None)
             ELSE IF boards # <<>>
             THEN Ok(Some(RMsgScanObject(boards[1].x, boards[1].y, BOT, "",
                                         boards[1].buffs)))
             ELSE Ok(Some(RMsgScanObject(SumX(components) \div Len(components),
                                         SumY(components) \div Len(components),
                                         BOT, "", <<>>)))

\* the frames the host answers an area scan with
ScanFrames ==
    {Frame("RScan", "RScan", [objects |-> l]) : l \in Scans}
      \cup {Frame("Error", "Error", [error_code |-> k]) : k \in ErrorCodes}
      \cup {Frame("Empty", "Empty", [value |-> 0])}
      \cup Malformed

----------------------------------------------------------------------------
(* The wait operations, and what the server answers once it has settled *)

Waits == {"await_aim", "await_component", "await_module"}

Count(tr, ev) == Cardinality({i \in DOMAIN tr : tr[i].ev = ev})

NumSends  == Count(trace, "send")
NumSleeps == Count(trace, "sleep")

\* The decoded response makes the wait loop of the running call go round again
PollsAgain(frame) ==
    LET d == decode_message(frame)
    IN  /\ IsOk(d)
        /\ op \in Waits
        /\ IsOk(Facade(fn, d.val))
        /\ CASE fn = "state" ->
                    ~(angle_distance(
                          transform_rotation_to_component(args.component_id, args.angle),
                          d.val.m.angle) < args.slack)
             [] fn \in {"component_state", "status"} -> d.val.m.cooldown > 0
             [] OTHER -> FALSE

\* The frames a settled server sends: the expected variant, the condition met
SettledFrames ==
    {f \in WellFormed :
        /\ f.typ = (CASE fn = "state" -> "RState"
                      [] fn = "component_state" -> "RComponentStatus"
                      [] fn = "status" -> "RModuleStatus"
                      [] OTHER -> "Empty")
        /\ ~PollsAgain(f)}

----------------------------------------------------------------------------
(* hostfn.rs: send_message, the host functions it and core::sleep call *)

Begin(o, a) ==
    /\ op' = o
    /\ args' = a
    /\ result' = NoResult
    /\ received' = NoResponse
    /\ polls' = <<>>
    /\ settled' = FALSE

\* a send_message that hands the bytes to the host twice
send_message_twice(f, msg, tr) ==
    /\ fn' = f
    /\ inflight' = Append(Append(inflight, msg), msg)
    /\ trace' = Append(tr, [ev |-> "send", req |-> msg])
    /\ pc' = "tcp_send"
    /\ reply' = NoBuf

\* send_message up to the call of tcp_send: serialize the message, hand the
\* bytes to the host and block until the host returns
send_message(f, msg, tr) ==
    /\ fn' = f
    /\ inflight' = Append(inflight, msg)
    /\ trace' = Append(tr, [ev |-> "send", req |-> msg])
    /\ pc' = "tcp_send"
    /\ reply' = NoBuf

\* a return that keeps the response buffer
Return_retain(r, tr) ==
    /\ result' = r
    /\ pc' = "idle"
    /\ trace' = tr
    /\ reply' = reply
    /\ UNCHANGED <<fn, inflight>>

\* a function returns r to the script
Return(r, tr) ==
    /\ result' = r
    /\ pc' = "idle"
    /\ trace' = tr
    /\ reply' = NoBuf
    /\ UNCHANGED <<fn, inflight>>

\* a sleep that calls the host's bot_sleep twice
sleep_twice(tr) ==
    /\ pc' = "sleep"
    /\ trace' = Append(Append(tr, [ev |-> "sleep", ms |-> 10]), [ev |-> "sleep", ms |-> 10])
    /\ reply' = NoBuf
    /\ UNCHANGED <<fn, inflight, result>>

\* core::sleep(0.01): block in the host's bot_sleep
sleep(tr) ==
    /\ pc' = "sleep"
    /\ trace' = Append(tr, [ev |-> "sleep", ms |-> 10])
    /\ reply' = NoBuf
    /\ UNCHANGED <<fn, inflight, result>>

\* the host answers the outstanding request with a frame [type, size, bytes]
tcp_send_return(frame) ==
    /\ pc = "tcp_send"
    /\ inflight # <<>>
    /\ settled => frame \in SettledFrames
    /\ PollsAgain(frame) => NumSleeps < MaxPolls
    /\ inflight' = Tail(inflight)
    /\ reply' = frame
    /\ trace' = Append(trace, [ev |-> "recv"])
    /\ pc' = "decode"
    /\ UNCHANGED <<op, args, fn, received, polls, result, settled>>

\* the server reaches the state the running wait is waiting for
server_settles ==
    /\ pc \in {"tcp_send", "sleep"}
    /\ op \in Waits
    /\ ~settled
    /\ op = "await_aim" =>
          \E a \in ReportedAngles :
              angle_distance(
                  transform_rotation_to_component(args.component_id, args.angle), a)
                < args.slack
    /\ settled' = TRUE
    /\ UNCHANGED <<pc, op, args, fn, inflight, reply, trace, received, polls, result>>

----------------------------------------------------------------------------
(* The single-shot facade operations: build one request, send it *)

use_component(component_id, sticky) ==
    /\ pc = "idle"
    /\ Begin("use_component", [component_id |-> component_id, sticky |-> sticky])
    /\ send_message("use_component",
                    MsgUse(component_id, IF sticky = FALSE THEN 0 ELSE 1), <<>>)

\* a velocity that clamps the speed to [0, 1] before sending it
velocity_clamped(x, y, speed) ==
    /\ pc = "idle"
    /\ Begin("velocity", [x |-> x, y |-> y, speed |-> speed])
    /\ send_message("velocity",
                    MsgVelocity(x, y, IF speed < 0 THEN 0 ELSE IF speed > 1 THEN 1 ELSE speed),
                    <<>>)

velocity(x, y, speed) ==
    /\ pc = "idle"
    /\ Begin("velocity", [x |-> x, y |-> y, speed |-> speed])
    /\ send_message("velocity", MsgVelocity(x, y, speed), <<>>)

rotate(angle) ==
    /\ pc = "idle"
    /\ Begin("rotate", [angle |-> angle])
    /\ send_message("rotate", MsgAngle(angle), <<>>)

state ==
    /\ pc = "idle"
    /\ Begin("state", [none |-> 0])
    /\ send_message("state", MsgState, <<>>)

component_state(component_id) ==
    /\ pc = "idle"
    /\ Begin("component_state", [component_id |-> component_id])
    /\ send_message("component_state", MsgComponentStatusQuery(component_id), <<>>)

time ==
    /\ pc = "idle"
    /\ Begin("time", [none |-> 0])
    /\ send_message("time", MsgTime, <<>>)

status(module) ==
    /\ pc = "idle"
    /\ Begin("status", [module |-> module])
    /\ send_message("status", MsgModuleStatusQuery(module), <<>>)

teleport(x, y) ==
    /\ pc = "idle"
    /\ Begin("teleport", [x |-> x, y |-> y])
    /\ send_message("teleport", MsgTeleport(x, y), <<>>)

radar ==
    /\ pc = "idle"
    /\ Begin("radar", [none |-> 0])
    /\ send_message("radar", MsgRadar, <<>>)

laser(angle) ==
    /\ pc = "idle"
    /\ Begin("laser", [angle |-> angle])
    /\ send_message("laser", MsgLaser(angle), <<>>)

force_field ==
    /\ pc = "idle"
    /\ Begin("force_field", [none |-> 0])
    /\ send_message("force_field", MsgForceField, <<>>)

mine ==
    /\ pc = "idle"
    /\ Begin("mine", [none |-> 0])
    /\ send_message("mine", MsgMine, <<>>)

repair(component_id) ==
    /\ pc = "idle"
    /\ Begin("repair", [component_id |-> component_id])
    /\ send_message("repair", MsgRepair(component_id), <<>>)

thrust(angle) ==
    /\ pc = "idle"
    /\ Begin("thrust", [angle |-> angle])
    /\ send_message("thrust", MsgThrust(angle), <<>>)

scan ==
    /\ pc = "idle"
    /\ Begin("scan", [none |-> 0])
    /\ send_message("scan", MsgScan, <<>>)

gps ==
    /\ pc = "idle"
    /\ Begin("gps", [none |-> 0])
    /\ send_message("gps", MsgGPS, <<>>)

SingleShot == {"use_component", "velocity", "rotate", "state", "component_state",
               "time", "status", "teleport", "radar", "laser", "force_field",
               "mine", "repair", "thrust", "scan", "gps"}

----------------------------------------------------------------------------
(* The operations built from other facade operations *)

\* an aim that rotates to the global angle as given
aim_global(component_id, angle) ==
    /\ pc = "idle"
    /\ Begin("aim", [component_id |-> component_id, angle |-> angle])
    /\ send_message("rotate", MsgAngle(angle), <<>>)

\* core.rs aim: rotate(transform_rotation_to_component(component_id, angle))
aim(component_id, angle) ==
    /\ pc = "idle"
    /\ Begin("aim", [component_id |-> component_id, angle |-> angle])
    /\ send_message("rotate",
                    MsgAngle(transform_rotation_to_component(component_id, angle)), <<>>)

\* core.rs at_rotation, up to the request state() sends
at_rotation(component_id, angle, slack) ==
    /\ pc = "idle"
    /\ Begin("at_rotation",
             [component_id |-> component_id, angle |-> angle, slack |-> slack])
    /\ send_message("state", MsgState, <<>>)

\* core.rs await_aim, up to the request of aim(component_id, angle)
await_aim(component_id, angle, slack) ==
    /\ pc = "idle"
    /\ Begin("await_aim",
             [component_id |-> component_id, angle |-> angle, slack |-> slack])
    /\ send_message("rotate",
                    MsgAngle(transform_rotation_to_component(component_id, angle)), <<>>)

\* core.rs await_component, up to the first component_state(component_id)
await_component(component_id) ==
    /\ pc = "idle"
    /\ Begin("await_component", [component_id |-> component_id])
    /\ send_message("component_state", MsgComponentStatusQuery(component_id), <<>>)

\* modules.rs scan_for_bot, up to the request scan() sends
scan_for_bot ==
    /\ pc = "idle"
    /\ Begin("scan_for_bot", [none |-> 0])
    /\ send_message("scan", MsgScan, <<>>)

\* crate::await_action: what it returns
await_action == {Ok(Unit)} \cup {Err(BadCommand(k)) : k \in ErrorCodes}
                  \cup {Err(InvalidResponse)}

\* modules.rs await_module: await_action()?, then the first status(module)
await_module(module) ==
    /\ pc = "idle"
    /\ Begin("await_module", [module |-> module])
    /\ \E r \in await_action :
          LET tr == <<[ev |-> "await_action"]>>
          IN  IF IsErr(r)
              THEN Return(r, tr)
              ELSE send_message("status", MsgModuleStatusQuery(module), tr)

----------------------------------------------------------------------------
(* What each operation does with the decoded response *)

\* an await_aim that keeps the angle of its first state query
await_aim_resume_cached(response) ==
    IF fn = "rotate"
    THEN LET aimed == rotate_match(response)
         IN  IF IsErr(aimed)
             THEN Return(aimed, trace)
             ELSE send_message("state", MsgState, trace) /\ UNCHANGED result
    ELSE LET st == state_match(response)
             cached == IF IsOk(st) /\ polls # <<>> THEN Ok([angle |-> polls[1]]) ELSE st
             at == at_rotation_result(args.component_id, args.angle, args.slack, cached)
         IN  IF IsErr(at) THEN Return(at, trace)
             ELSE IF ~at.val THEN sleep(trace)
             ELSE Return(Ok(Unit), trace)

\* an await_aim that gives up after two sleeps
await_aim_resume_timeout(response) ==
    IF fn = "rotate"
    THEN LET aimed == rotate_match(response)
         IN  IF IsErr(aimed)
             THEN Return(aimed, trace)
             ELSE send_message("state", MsgState, trace) /\ UNCHANGED result
    ELSE LET at == at_rotation_result(args.component_id, args.angle, args.slack,
                                      state_match(response))
         IN  IF IsErr(at) THEN Return(at, trace)
             ELSE IF ~at.val /\ NumSleeps < 2 THEN sleep(trace)
             ELSE Return(Ok(Unit), trace)

\* an await_aim that starts to poll whatever aim returned
await_aim_resume_unchecked(response) ==
    IF fn = "rotate"
    THEN send_message("state", MsgState, trace) /\ UNCHANGED result
    ELSE LET at == at_rotation_result(args.component_id, args.angle, args.slack,
                                      state_match(response))
         IN  IF IsErr(at) THEN Return(at, trace)
             ELSE IF ~at.val THEN sleep(trace)
             ELSE Return(Ok(Unit), trace)

\* await_aim: aim(..)? ; while !at_rotation(..)? { sleep(0.01) } ; Ok(())
await_aim_resume(response) ==
    IF fn = "rotate"
    THEN LET aimed == rotate_match(response)
         IN  IF IsErr(aimed)
             THEN Return(aimed, trace)
             ELSE send_message("state", MsgState, trace) /\ UNCHANGED result
    ELSE LET at == at_rotation_result(args.component_id, args.angle, args.slack,
                                      state_match(response))
         IN  IF IsErr(at) THEN Return(at, trace)
             ELSE IF ~at.val THEN sleep(trace)
             ELSE Return(Ok(Unit), trace)

\* an await_component that polls on through a failed query
await_component_resume_ignore(response) ==
    LET st == component_state_match(response)
    IN  IF IsErr(st) THEN sleep(trace)
        ELSE IF st.val.cooldown > 0 THEN sleep(trace)
        ELSE Return(Ok(Unit), trace)

\* an await_component that waits while the cooldown is not negative
await_component_resume_geq(response) ==
    LET st == component_state_match(response)
    IN  IF IsErr(st) THEN Return(st, trace)
        ELSE IF st.val.cooldown >= 0 THEN sleep(trace)
        ELSE Return(Ok(Unit), trace)

\* await_component: while component_state(id)?.cooldown > 0.0 { sleep(0.01) } ; Ok(())
await_component_resume(response) ==
    LET st == component_state_match(response)
    IN  IF IsErr(st) THEN Return(st, trace)
        ELSE IF st.val.cooldown > 0 THEN sleep(trace)
        ELSE Return(Ok(Unit), trace)

\* await_module: while status(module)?.cooldown > 0.0 { core::sleep(0.01) } ; Ok(())
await_module_resume(response) ==
    LET st == status_match(response)
    IN  IF IsErr(st) THEN Return(st, trace)
        ELSE IF st.val.cooldown > 0 THEN sleep(trace)
        ELSE Return(Ok(Unit), trace)

\* at_rotation: state()?.angle, the distance to the target, Ok(distance < slack)
at_rotation_resume(response) ==
    Return(at_rotation_result(args.component_id, args.angle, args.slack,
                              state_match(response)), trace)

\* scan_for_bot: scan()?, then the search for the bot in the objects
scan_for_bot_resume(response) ==
    Return(scan_for_bot_result(scan_match(response)), trace)

\* the request sent last
LastReq ==
    LET sends == {i \in DOMAIN trace : trace[i].ev = "send"}
    IN  trace[CHOOSE i \in sends : \A j \in sends : j <= i].req

\* a facade function that sends its request once more when it failed
facade_resume_retry(response) ==
    IF IsErr(Facade(fn, response)) /\ NumSends < 2
    THEN send_message(fn, LastReq, trace) /\ UNCHANGED result
    ELSE Return(Facade(fn, response), trace)

\* a facade function called directly (or rotate called by aim) returns its result
facade_resume(response) ==
    Return(Facade(fn, response), trace)

\* the value a wait loop reads from a polling response it accepts
Polled(resp) ==
    IF op \in Waits /\ fn # "rotate" /\ IsOk(Facade(fn, resp))
    THEN Append(polls, IF fn = "state" THEN resp.m.angle ELSE resp.m.cooldown)
    ELSE polls

\* a send_message that reports a decode failure as an invalid response
send_message_return_invalid ==
    /\ pc = "decode"
    /\ LET decoded == decode_message(reply)
       IN  IF IsErr(decoded)
           THEN Return(Err(InvalidResponse), trace) /\ UNCHANGED <<received, polls>>
           ELSE /\ received' = decoded.val
                /\ polls' = Polled(decoded.val)
                /\ CASE op = "await_aim"       -> await_aim_resume(decoded.val)
                     [] op = "await_component" -> await_component_resume(decoded.val)
                     [] op = "await_module"    -> await_module_resume(decoded.val)
                     [] op = "at_rotation"     -> at_rotation_resume(decoded.val)
                     [] op = "scan_for_bot"    -> scan_for_bot_resume(decoded.val)
                     [] OTHER                  -> facade_resume(decoded.val)
    /\ UNCHANGED <<op, args, settled>>

\* send_message from the return of tcp_send: take the buffer, decode it, unwrap
\* the result (a decode failure panics), drop the buffer, return the response
\* to the facade function, which maps it
send_message_return ==
    /\ pc = "decode"
    /\ LET decoded == decode_message(reply)
       IN  IF IsErr(decoded)
           THEN /\ pc' = "panicked"
                /\ reply' = NoBuf
                /\ UNCHANGED <<fn, inflight, trace, received, polls, result>>
           ELSE /\ received' = decoded.val
                /\ polls' = Polled(decoded.val)
                /\ CASE op = "await_aim"       -> await_aim_resume(decoded.val)
                     [] op = "await_component" -> await_component_resume(decoded.val)
                     [] op = "await_module"    -> await_module_resume(decoded.val)
                     [] op = "at_rotation"     -> at_rotation_resume(decoded.val)
                     [] op = "scan_for_bot"    -> scan_for_bot_resume(decoded.val)
                     [] OTHER                  -> facade_resume(decoded.val)
    /\ UNCHANGED <<op, args, settled>>

\* a wait loop that polls the first component, the first module
bot_sleep_return_first ==
    /\ pc = "sleep"
    /\ NumSleeps <= MaxPolls
    /\ CASE op = "await_aim" -> send_message("state", MsgState, trace)
         [] op = "await_component" ->
                send_message("component_state", MsgComponentStatusQuery(0), trace)
         [] op = "await_module" ->
                send_message("status", MsgModuleStatusQuery(Teleporter), trace)
    /\ UNCHANGED <<op, args, received, polls, result, settled>>

\* an await_aim that aims again after every sleep
bot_sleep_return_reaim ==
    /\ pc = "sleep"
    /\ NumSleeps <= MaxPolls
    /\ CASE op = "await_aim" ->
                send_message("rotate",
                             MsgAngle(transform_rotation_to_component(args.component_id,
                                                                      args.angle)), trace)
         [] op = "await_component" ->
                send_message("component_state",
                             MsgComponentStatusQuery(args.component_id), trace)
         [] op = "await_module" ->
                send_message("status", MsgModuleStatusQuery(args.module), trace)
    /\ UNCHANGED <<op, args, received, polls, result, settled>>

\* the host's bot_sleep returns: the wait loop evaluates its condition again,
\* which sends the next query
bot_sleep_return ==
    /\ pc = "sleep"
    /\ NumSleeps <= MaxPolls
    /\ CASE op = "await_aim" -> send_message("state", MsgState, trace)
         [] op = "await_component" ->
                send_message("component_state",
                             MsgComponentStatusQuery(args.component_id), trace)
         [] op = "await_module" ->
                send_message("status", MsgModuleStatusQuery(args.module), trace)
    /\ UNCHANGED <<op, args, received, polls, result, settled>>

----------------------------------------------------------------------------
(* The frame transforms, applied one after the other to an angle *)

\* let local_angle = transform_rotation_to_component(component_id, global_angle)
call_transform_rotation_to_component ==
    /\ pc = "idle" /\ op = "none"
    /\ DOMAIN args = {"component_id", "angle"}
    /\ op' = "transform_rotation_to_component"
    /\ result' = Ok(transform_rotation_to_component_f32(args.component_id, args.angle))
    /\ UNCHANGED <<pc, args, fn, inflight, reply, trace, received, polls, settled>>

\* let global_angle = transform_rotation_from_component(component_id, local_angle)
call_transform_rotation_from_component ==
    /\ pc = "idle" /\ op = "transform_rotation_to_component"
    /\ op' = "transform_rotation_from_component"
    /\ result' = Ok(transform_rotation_from_component_f32(args.component_id, result.val))
    /\ UNCHANGED <<pc, args, fn, inflight, reply, trace, received, polls, settled>>

\* let distance = angle_distance(angle, other_angle)
call_angle_distance ==
    /\ pc = "idle" /\ op = "none"
    /\ DOMAIN args = {"angle", "other_angle"}
    /\ op' = "angle_distance"
    /\ result' = Ok(angle_distance_f32(args.angle, args.other_angle))
    /\ UNCHANGED <<pc, args, fn, inflight, reply, trace, received, polls, settled>>

----------------------------------------------------------------------------
(* The specification *)

Init ==
    /\ pc = "idle"
    /\ op = "none"
    /\ args = [none |-> 0]
    /\ fn = "none"
    /\ inflight = <<>>
    /\ reply = NoBuf
    /\ trace = <<>>
    /\ received = NoResponse
    /\ polls = <<>>
    /\ result = NoResult
    /\ settled = FALSE

Next ==
    \/ \E c \in ComponentIds, sticky \in BOOLEAN : use_component(c, sticky)
    \/ \E x \in Coords, y \in Coords, speed \in Speeds : velocity(x, y, speed)
    \/ \E a \in Angles : rotate(a)
    \/ state
    \/ \E c \in ComponentIds : component_state(c)
    \/ time
    \/ \E m \in Module : status(m)
    \/ \E x \in Coords, y \in Coords : teleport(x, y)
    \/ radar
    \/ \E a \in Angles : laser(a)
    \/ force_field
    \/ mine
    \/ \E c \in ComponentIds : repair(c)
    \/ \E a \in Angles : thrust(a)
    \/ scan
    \/ gps
    \/ \E c \in ComponentIds, g \in GlobalAngles : aim(c, g)
    \/ \E c \in ComponentIds, g \in GlobalAngles, s \in Slacks : at_rotation(c, g, s)
    \/ \E c \in ComponentIds, g \in GlobalAngles, s \in Slacks : await_aim(c, g, s)
    \/ \E c \in ComponentIds : await_component(c)
    \/ \E m \in Module : await_module(m)
    \/ scan_for_bot
    \/ \E f \in Frames : tcp_send_return(f)
    \/ send_message_return
    \/ bot_sleep_return
    \/ server_settles

Spec == Init /\ [][Next]_vars

\* The script scans for the bot, the host answers with every scan
NextScan ==
    \/ scan_for_bot
    \/ \E f \in ScanFrames : tcp_send_return(f)
    \/ send_message_return

SpecScan == Init /\ [][NextScan]_vars

\* A script that has a component id and a global angle at hand
InitRotations ==
    /\ pc = "idle"
    /\ op = "none"
    /\ args \in {[component_id |-> c, angle |-> g] :
                    c \in ComponentIdsI32, g \in FloatAngles}
    /\ fn = "none"
    /\ inflight = <<>>
    /\ reply = NoBuf
    /\ trace = <<>>
    /\ received = NoResponse
    /\ polls = <<>>
    /\ result = NoResult
    /\ settled = FALSE

NextRotations ==
    \/ call_transform_rotation_to_component
    \/ call_transform_rotation_from_component

SpecRotations == InitRotations /\ [][NextRotations]_vars

\* A script that has two angles at hand
InitDistance ==
    /\ pc = "idle"
    /\ op = "none"
    /\ args \in {[angle |-> a, other_angle |-> b] :
                    a \in DistanceAngles, b \in DistanceAngles}
    /\ fn = "none"
    /\ inflight = <<>>
    /\ reply = NoBuf
    /\ trace = <<>>
    /\ received = NoResponse
    /\ polls = <<>>
    /\ result = NoResult
    /\ settled = FALSE

NextDistance == call_angle_distance

SpecDistance == InitDistance /\ [][NextDistance]_vars

\* The script and the host keep taking their steps
FairSpec ==
    /\ Spec
    /\ WF_vars(send_message_return)
    /\ WF_vars(bot_sleep_return)
    /\ WF_vars(\E f \in Frames : tcp_send_return(f))

TypeOK ==
    /\ pc \in {"idle", "tcp_send", "decode", "sleep", "panicked"}
    /\ op \in SingleShot \cup Waits \cup {"aim", "at_rotation", "scan_for_bot", "none",
                  "transform_rotation_to_component", "transform_rotation_from_component",
                  "angle_distance"}
    /\ fn \in SingleShot \cup {"none"}
    /\ Len(inflight) \in 0..2
    /\ settled \in BOOLEAN

----------------------------------------------------------------------------
(* Properties *)

Returned == pc = "idle" /\ op # "none"

Commands == {"use_component", "velocity", "rotate"}
Queries  == SingleShot \ Commands

\* The wire catalogue: the response variant each request expects
Expected(o) ==
    CASE o = "state"           -> "RState"
      [] o = "component_state" -> "RComponentStatus"
      [] o = "time"            -> "RTime"
      [] o = "status"          -> "RModuleStatus"
      [] o = "radar"           -> "RRadar"
      [] o = "laser"           -> "RLaser"
      [] o = "repair"          -> "RRepair"
      [] o = "scan"            -> "RScan"
      [] o = "gps"             -> "RGPS"
      [] o \in {"teleport", "force_field", "mine", "thrust"} -> "Empty"
      [] o \in Commands        -> "Empty"
      [] o = "await_aim"       -> "RState"
      [] o = "await_component" -> "RComponentStatus"
      [] o = "await_module"    -> "RModuleStatus"

\* C1: when the response to a facade operation's request is the Error variant
\* carrying code k, the call returns Err(BadCommand(k)) with that k.
C1_ErrorIsBadCommand ==
    (Returned /\ op \in SingleShot /\ received.variant = "Error")
        => result = Err(BadCommand(received.m.error_code))

C1_Witness ==
    /\ Returned /\ op = "use_component"
    /\ args = [component_id |-> 2, sticky |-> FALSE]
    /\ received = Response("Error", [error_code |-> 7])
    /\ result = Err(BadCommand(7))

\* C2: use_component, velocity and rotate fail with an error when the response
\* is neither Empty nor Error; such a response is never turned into Ok(()).
C2_CommandRejectsOtherVariant ==
    (Returned /\ op \in Commands /\ received.variant \notin {"Empty", "Error", "none"})
        => IsErr(result)

\* C3: a query or module operation answered with a variant that is neither
\* Error nor the one it expects returns Err(InvalidResponse).
C3_OtherVariantIsInvalidResponse ==
    (Returned /\ op \in Queries /\ received.variant \notin {"Error", Expected(op), "none"})
        => result = Err(InvalidResponse)

C3_Witness ==
    /\ Returned /\ op = "state"
    /\ received.variant = "RTime"
    /\ result = Err(InvalidResponse)

\* C4: a query or module operation succeeds on exactly the variant the wire
\* catalogue lists for it, and then returns the received payload unchanged
\* (time returns the payload's timestamp).
C4_ExpectedVariantUnwrapped ==
    (Returned /\ op \in Queries /\ received.variant # "none")
        => /\ IsOk(result) <=> received.variant = Expected(op)
           /\ IsOk(result) =>
                IF op = "time" THEN result.val = received.m.timestamp
                               ELSE result.val = received.m

C4_Witness ==
    /\ Returned /\ op = "radar"
    /\ received = Response("RRadar", [value |-> 1])
    /\ result = Ok([value |-> 1])

\* C5: one call of a single-shot facade operation sends exactly one request,
\* whatever the response is.
C5_OneRequestPerCall ==
    op \in SingleShot => NumSends = 1 /\ Len(inflight) <= 1

C5_Witness ==
    /\ Returned /\ op = "teleport"
    /\ received.variant = "Error"
    /\ IsErr(result)
    /\ NumSends = 1

\* C6: at most one request is outstanding, and only while the script is
\* blocked in tcp_send; every other request sent has been answered.
C6_OneOutstanding ==
    /\ Len(inflight) <= 1
    /\ (inflight # <<>>) <=> (pc = "tcp_send")
    /\ NumSends = Count(trace, "recv") + Len(inflight)

C6_Witness ==
    /\ op \in Waits
    /\ pc = "tcp_send"
    /\ NumSleeps >= 1
    /\ Len(inflight) = 1

PollFns == {"state", "component_state", "status"}

\* the response the wait loop got last is a failed polling query
PollFailed ==
    /\ op \in Waits /\ fn \in PollFns
    /\ pc \in {"idle", "sleep"}
    /\ received.variant \notin {Expected(op), "none"}

\* the error a failed polling query returns
PollError ==
    IF received.variant = "Error"
    THEN Err(BadCommand(received.m.error_code))
    ELSE Err(InvalidResponse)

\* C7: in a wait loop the first polling query that fails ends the wait: the
\* function returns that error, and nothing is sent or slept after it.
C7_FailedPollEndsWait ==
    PollFailed =>
        /\ pc = "idle"
        /\ result = PollError
        /\ trace[Len(trace)].ev = "recv"
        /\ inflight = <<>>

C7_Witness ==
    /\ PollFailed /\ op = "await_component"
    /\ NumSleeps >= 1
    /\ received.variant = "Error"
    /\ result = Err(BadCommand(7))

\* the predicate of the running wait, on a value its polling query reported
WaitPredicate(v) ==
    IF op = "await_aim"
    THEN angle_distance(transform_rotation_to_component(args.component_id, args.angle), v)
            < args.slack
    ELSE ~(v > 0)

\* C8: a wait returns Ok(()) only when the last polling response satisfied
\* the predicate, and Err only when a query (or the step before the loop)
\* failed; after a successful poll with the predicate false it sleeps and
\* polls again, however many polls there have been.
C8_WaitExits ==
    /\ (Returned /\ op \in Waits /\ IsOk(result)) =>
          /\ result = Ok(Unit)
          /\ polls # <<>>
          /\ WaitPredicate(polls[Len(polls)])
          /\ received.variant = Expected(op)
    /\ (Returned /\ op \in Waits /\ IsErr(result)) =>
          \/ PollFailed
          \/ fn = "rotate" /\ received.variant = "Error"
          \/ op = "await_module" /\ NumSends = 0
    /\ (op \in Waits /\ pc \in {"idle", "sleep"} /\ fn \in PollFns
          /\ received.variant = Expected(op) /\ ~WaitPredicate(polls[Len(polls)]))
          => pc = "sleep"

C8_Witness ==
    /\ Returned /\ op = "await_aim"
    /\ result = Ok(Unit)
    /\ NumSleeps = MaxPolls
    /\ WaitPredicate(polls[Len(polls)])
    /\ ~WaitPredicate(polls[Len(polls) - 1])

\* C9: with the script and the host taking their steps, once every query
\* succeeds with the predicate true, await_aim and await_component return Ok(()).
C9_WaitReturns ==
    (settled /\ op \in {"await_aim", "await_component"} /\ pc \notin {"idle", "panicked"})
        ~> (op \in {"await_aim", "await_component"} /\ pc = "idle" /\ IsOk(result))

C9_Witness ==
    /\ settled /\ Returned
    /\ op = "await_component"
    /\ NumSleeps >= 1
    /\ result = Ok(Unit)

AimScenario ==
    /\ op = "await_aim"
    /\ args = [component_id |-> 0, angle |-> 900, slack |-> 5]
    /\ polls # <<>>
    /\ polls[1] = 896

\* C10 as stated: await_aim(0, 90, 0.5) with the state queries reporting 89.6,
\* 89.9 and 90.0 sleeps twice and returns success on the query reporting 90.0.
C10_BlocksTwoIterations ==
    (AimScenario /\ Returned /\ IsOk(result))
        => polls = <<896, 899, 900>> /\ NumSleeps = 2

\* C10 amended: await_aim(0, 90, 0.5) whose first state query reports 89.6
\* returns success on that query (the distance 0.4 is below 0.5): one rotate,
\* one state query, no sleep.
C10_ReturnsOnFirstPoll ==
    AimScenario =>
        /\ pc = "idle"
        /\ result = Ok(Unit)
        /\ polls = <<896>>
        /\ NumSleeps = 0
        /\ NumSends = 2

C10_Witness ==
    /\ AimScenario /\ Returned
    /\ result = Ok(Unit)
    /\ polls = <<896>>


\* the distance between the local target g - 90*c of the running call and a
\* reported angle
TargetDistance(reported) ==
    angle_distance(args.angle - 900 * args.component_id, reported)

\* C11: at_rotation(c, g, s) returns Ok(true) exactly when
\* angle_distance(g - 90*c, reported) < s; at a distance equal to s it returns
\* Ok(false), and await_aim sleeps and polls again.
C11_StrictlyWithinSlack ==
    /\ (Returned /\ op = "at_rotation" /\ received.variant = "RState")
          => result = Ok(TargetDistance(received.m.angle) < args.slack)
    /\ (op = "await_aim" /\ fn = "state" /\ pc \in {"idle", "sleep"}
          /\ received.variant = "RState"
          /\ TargetDistance(received.m.angle) = args.slack)
          => pc = "sleep"

C11_Witness ==
    /\ Returned /\ op = "at_rotation"
    /\ args = [component_id |-> 0, angle |-> 900, slack |-> 5]
    /\ received = Response("RState", [angle |-> 895])
    /\ result = Ok(FALSE)


\* the requests the running call has sent, in order
Sent == SelectSeq(trace, LAMBDA e : e.ev = "send")

\* C12: aim(c, g) sends exactly one request, a rotate whose angle is the
\* local angle g - 90*c (the global angle g only when c = 0), and returns
\* what rotate returns for the response.
C12_AimSendsLocalAngle ==
    op = "aim" =>
        /\ Len(Sent) = 1
        /\ Sent[1].req = [type |-> "MsgAngle",
                          angle |-> args.angle - 900 * args.component_id]
        /\ (args.component_id # 0) => Sent[1].req.angle # args.angle
        /\ Returned => result = rotate_match(received)

C12_Witness ==
    /\ Returned /\ op = "aim"
    /\ args = [component_id |-> 2, angle |-> 900]
    /\ Sent[1].req = [type |-> "MsgAngle", angle |-> -900]
    /\ result = Ok(Unit)


\* the value the wait predicate reads in the response received last
ReceivedValue ==
    IF op = "await_aim" THEN received.m.angle ELSE received.m.cooldown

\* C13: the result of a query is computed from the response to the request
\* of that same call or iteration only: state, component_state and status
\* return the payload just received, at_rotation compares the angle just
\* received, and a wait loop ends or goes on according to the response of the
\* current iteration, whatever earlier calls and iterations received.
C13_NoCaching ==
    /\ (Returned /\ op \in {"state", "component_state", "status"}
          /\ received.variant = Expected(op))
          => result = Ok(received.m)
    /\ (Returned /\ op = "at_rotation" /\ received.variant = "RState")
          => result.val = (TargetDistance(received.m.angle) < args.slack)
    /\ (op \in Waits /\ fn \in PollFns /\ pc \in {"idle", "sleep"}
          /\ received.variant = Expected(op))
          => /\ (pc = "idle") <=> WaitPredicate(ReceivedValue)
             /\ polls[Len(polls)] = ReceivedValue

C13_Witness ==
    /\ Returned /\ op = "await_aim"
    /\ Len(polls) >= 2
    /\ received.variant = "RState"
    /\ ~WaitPredicate(polls[1])
    /\ WaitPredicate(received.m.angle)
    /\ result = Ok(Unit)


\* the frame send_message holds does not decode as the variant its tag names
HostFault == pc = "decode" /\ reply.shape # reply.typ

C15_FailuresAreReturned ==
    [][(pc = "decode") =>
          /\ pc' # "panicked"
          /\ HostFault => (pc' = "idle" /\ IsErr(result'))]_vars


\* C16: velocity(x, y, speed) sends one set-velocity request carrying the x,
\* y and speed it was given, also a speed outside [0, 1] and a zero or
\* non-unit direction, and returns Ok(()) on the acknowledgement.
C16_VelocityUnclamped ==
    op = "velocity" =>
        /\ Len(Sent) = 1
        /\ Sent[1].req = [type |-> "MsgVelocity", x |-> args.x, y |-> args.y,
                          speed |-> args.speed]
        /\ (Returned /\ received.variant = "Empty") => result = Ok(Unit)

C16_Witness ==
    /\ Returned /\ op = "velocity"
    /\ args = [x |-> 0, y |-> 0, speed |-> 2]
    /\ Sent[1].req.speed = 2
    /\ received.variant = "Empty"
    /\ result = Ok(Unit)


----------------------------------------------------------------------------
(* scan_for_bot *)

\* scan_for_bot returned, and the scan it asked for was answered with a list
Scanned == Returned /\ op = "scan_for_bot" /\ received.variant = "RScan"

\* the scanned objects tagged component, and those of kind motherboard
ScannedComponents == SelectSeq(received.m.objects, LAMBDA o : o.tag = COMPONENT)
ScannedBoards == SelectSeq(ScannedComponents, LAMBDA c : c.kind = MOTHERBOARD)

\* the components have one common position
Coincide(objs) ==
    \A i, j \in 1..Len(objs) : objs[i].x = objs[j].x /\ objs[i].y = objs[j].y

\* the result is Ok(Some) of an object at (x, y)
FoundAt(x, y) ==
    /\ IsOk(result) /\ result.val.some
    /\ result.val.obj.x = x /\ result.val.obj.y = y

\* the result is Ok(Some) of the mean position of objs
FoundAtMean(objs) ==
    /\ IsOk(result) /\ result.val.some
    /\ result.val.obj.x * Len(objs) = SumX(objs)
    /\ result.val.obj.y * Len(objs) = SumY(objs)

\* C17: when the scan lists a component of kind motherboard, scan_for_bot
\* returns the position of a motherboard, whatever other components there
\* are and wherever they are: the positions are not averaged.
C17_PrefersMotherboard ==
    (Scanned /\ ScannedBoards # <<>>) =>
        /\ \E i \in 1..Len(ScannedBoards) :
               FoundAt(ScannedBoards[i].x, ScannedBoards[i].y)
        /\ (Len(ScannedBoards) = 1 => FoundAt(ScannedBoards[1].x, ScannedBoards[1].y))

\* a motherboard among three components whose mean lies elsewhere
C17_Witness ==
    /\ Scanned /\ Len(ScannedBoards) = 1 /\ Len(ScannedComponents) = 3
    /\ ~FoundAtMean(ScannedComponents)
    /\ FoundAt(ScannedBoards[1].x, ScannedBoards[1].y)

\* C18 as stated: with n >= 1 components and no motherboard the result is
\* the mean of the n components, and it is no single component's position
\* unless all of them coincide.
C18_MeanIsNoObjectsPosition ==
    (Scanned /\ ScannedComponents # <<>> /\ ScannedBoards = <<>>) =>
        /\ FoundAtMean(ScannedComponents)
        /\ (\E i \in 1..Len(ScannedComponents) :
               FoundAt(ScannedComponents[i].x, ScannedComponents[i].y))
             => Coincide(ScannedComponents)

\* C18: with n >= 1 components and no motherboard, scan_for_bot returns
\* Ok(Some) of the mean position of exactly the n components, tagged bot, with
\* an empty kind and no buffs; objects with another tag do not contribute.
C18_MeanOfComponents ==
    (Scanned /\ ScannedComponents # <<>> /\ ScannedBoards = <<>>) =>
        /\ FoundAtMean(ScannedComponents)
        /\ result.val.obj.tag = BOT
        /\ result.val.obj.kind = ""
        /\ result.val.obj.buffs = <<>>

\* two components and a wall: the mean of the two, not of the three
C18_Witness ==
    /\ Scanned /\ Len(received.m.objects) = 3
    /\ Len(ScannedComponents) = 2 /\ ScannedBoards = <<>>
    /\ ~Coincide(ScannedComponents)
    /\ FoundAtMean(ScannedComponents)
    /\ ~FoundAtMean(received.m.objects)

\* C19: a scan that lists no component, empty or not, makes scan_for_bot
\* return Ok(None); scan_for_bot returns an error only when the scan request
\* was not answered with a list.
C19_NoComponentIsNone ==
    (Returned /\ op = "scan_for_bot") =>
        /\ (received.variant = "RScan" /\ ScannedComponents = <<>>) => result = Ok(None)
        /\ IsErr(result) <=> received.variant # "RScan"

\* a scan listing only a wall is answered with Ok(None)
C19_Witness ==
    /\ Scanned /\ received.m.objects # <<>>
    /\ ScannedComponents = <<>>
    /\ result = Ok(None)


----------------------------------------------------------------------------
(* The round trip through a component's frame *)

\* the global angle was transformed to the component's frame and back
RoundTripped == op = "transform_rotation_from_component"

\* the local angle in exact arithmetic
ExactLocal == args.angle - 90 * Degree * args.component_id

\* C20 as stated: for all component ids c and all global angles g the
\* transform to the component's frame and back gives g (mod 360) exactly.
C20_RoundTripExact ==
    RoundTripped => (result.val - args.angle) % (360 * Degree) = 0

\* C20: the round trip gives g exactly whenever g - 90 c is itself an f32;
\* for every g it differs from g by at most the distance between the f32
\* values around g - 90 c.
C20_RoundTripUpToRounding ==
    RoundTripped =>
        /\ RoundF32(ExactLocal) = ExactLocal => result.val = args.angle
        /\ Abs(result.val - args.angle) <= Ulp(ExactLocal)

\* an angle that is no whole degree comes back from another frame unchanged
C20_Witness ==
    /\ RoundTripped
    /\ args.component_id # 0
    /\ args.angle % Degree # 0
    /\ RoundF32(ExactLocal) = ExactLocal
    /\ result.val = args.angle


----------------------------------------------------------------------------
(* angle_distance *)

\* angle_distance(angle, other_angle) was computed
Measured == op = "angle_distance"

\* both angles are whole degrees
WholeDegrees == args.angle % Degree = 0 /\ args.other_angle % Degree = 0

\* the distance with the two angles exchanged
Exchanged == angle_distance_f32(args.other_angle, args.angle)

DistanceUlp == Ulp(Abs(args.angle) + Abs(args.other_angle) + 180 * Degree)

HalfTurnOn == args.other_angle = AddF32(args.angle, 180 * Degree)

\* the first angle is the f32 sum other_angle + 180.0
HalfTurnBack == args.angle = AddF32(args.other_angle, 180 * Degree)

\* C22 as stated: for all angles a, angle_distance(a, a) is 0 and
\* angle_distance(a, a + 180) and angle_distance(a + 180, a) are 180.
C22_ZeroAndHalfTurn ==
    Measured =>
        /\ args.other_angle = args.angle => result.val = 0
        /\ HalfTurnOn => result.val = 180 * Degree
        /\ HalfTurnBack => result.val = 180 * Degree

\* C22: angle_distance(a, a) is 0 for every angle a; the distance between a
\* and an angle exactly 180 away from it is 180; the distance between a and
\* the f32 sum a + 180.0 is 180 up to the rounding of that sum.
C22_ZeroAndExactHalfTurn ==
    Measured =>
        /\ args.other_angle = args.angle => result.val = 0
        /\ Abs(args.other_angle - args.angle) = 180 * Degree => result.val = 180 * Degree
        /\ (HalfTurnOn \/ HalfTurnBack) =>
               180 * Degree - result.val <= Ulp(Abs(args.angle) + Abs(args.other_angle))

\* a fractional angle and the angle exactly 180 further on
C22_Witness ==
    /\ Measured /\ ~WholeDegrees
    /\ HalfTurnOn
    /\ args.other_angle - args.angle = 180 * Degree
    /\ result.val = 180 * Degree


\* the reference distance: min(d, 360 - d) for d = (a - b) mod 360
Reference ==
    LET d == (args.angle - args.other_angle) % (360 * Degree)
    IN  IF d <= 360 * Degree - d THEN d ELSE 360 * Degree - d

\* C27: over whole degrees, negative differences included, angle_distance
\* equals the minimal unsigned circular difference min(d, 360 - d), where
\* d = (a - b) mod 360 with the non-negative remainder.
C27_MinimalCircularDifference ==
    (Measured /\ WholeDegrees) => result.val = Reference

\* a negative difference of more than a turn: 1 and 725 are 4 degrees apart
C27_Witness ==
    /\ Measured
    /\ args.angle = Degree /\ args.other_angle = 725 * Degree
    /\ result.val = 4 * Degree


----------------------------------------------------------------------------
(* The shape of a wait *)

\* the local angle aim commands for the running call
Local == transform_rotation_to_component(args.component_id, args.angle)

\* C23: await_aim sends its rotate request once, as its first request, and
\* every request it sends after that is a state query.
C23_RotateOnceThenQueries ==
    (op = "await_aim") =>
        /\ Sent # <<>>
        /\ trace[1] = [ev |-> "send", req |-> MsgAngle(Local)]
        /\ \A i \in 2..Len(Sent) : Sent[i].req = MsgState

\* an await_aim that returned Ok after three state queries
C23_Witness ==
    /\ Returned /\ op = "await_aim" /\ result = Ok(Unit)
    /\ Len(Sent) = 4
    /\ Sent[1].req.type = "MsgAngle"
    /\ Sent[4].req = MsgState

\* the rotate request of await_aim was answered with the Error variant
RotateRefused ==
    /\ pc = "decode" /\ op = "await_aim" /\ fn = "rotate"
    /\ reply.typ = "Error" /\ reply.shape = "Error"

\* C24: when the rotate request of await_aim is answered with Error(k),
\* await_aim returns Err(BadCommand(k)) at once: it has sent one request,
\* no state query, and has not slept.
C24_RefusedAimEndsWait ==
    [][RotateRefused =>
          /\ pc' = "idle"
          /\ result' = Err(BadCommand(reply.m.error_code))
          /\ Len(Sent') = 1
          /\ Count(trace', "sleep") = 0]_vars

\* await_aim returned the code of the refused rotate
C24_Witness ==
    /\ Returned /\ op = "await_aim" /\ fn = "rotate"
    /\ received = Response("Error", [error_code |-> 7])
    /\ result = Err(BadCommand(7))
    /\ Len(Sent) = 1 /\ NumSleeps = 0

\* the queries and the sleeps of the polling loop, in order
Polling ==
    SelectSeq(trace, LAMBDA e : \/ e.ev = "sleep"
                                \/ e.ev = "send" /\ e.req.type # "MsgAngle")

\* the entry of a polling loop is a query
IsQuery(e) ==
    /\ e.ev = "send"
    /\ e.req.type \in {"MsgState", "MsgComponentStatusQuery", "MsgModuleStatusQuery"}

\* C25: the polling of a wait is query, (sleep(0.01), query)*: it starts
\* with a query, queries and sleeps of 0.01 s alternate, and a wait that has
\* returned ended with a query, after n queries and n - 1 sleeps.
C25_PollSleepAlternate ==
    (op \in Waits) =>
        /\ \A i \in DOMAIN Polling :
              IF i % 2 = 1 THEN IsQuery(Polling[i])
              ELSE Polling[i] = [ev |-> "sleep", ms |-> 10]
        /\ (Returned /\ Polling # <<>>) =>
              /\ IsQuery(Polling[Len(Polling)])
              /\ NumSleeps = Len(Polling) - NumSleeps - 1

\* an await_module that returned after three queries and two sleeps
C25_Witness ==
    /\ Returned /\ op = "await_module" /\ result = Ok(Unit)
    /\ Len(Polling) = 5
    /\ NumSleeps = 2

----------------------------------------------------------------------------
(* The frame of aim and at_rotation, the slack, the entity polled *)

\* a state query of at_rotation or await_aim is answered with the angle a
StateReports(a) ==
    /\ pc = "decode" /\ op \in {"at_rotation", "await_aim"} /\ fn = "state"
    /\ reply.typ = "RState" /\ reply.shape = "RState"
    /\ reply.m.angle = a

\* the reported angle is the local angle aim commands, modulo 360
Reached ==
    \E a \in ReportedAngles : StateReports(a) /\ (a - Local) % 3600 = 0

\* C28: when the state query reports the local angle that aim commanded, or
\* an angle equal to it modulo 360, and the slack is positive, at_rotation
\* returns Ok(true) and await_aim returns Ok at that poll.
C28_SameFrame ==
    [][(Reached /\ args.slack > 0) =>
          /\ pc' = "idle"
          /\ op = "at_rotation" => result' = Ok(TRUE)
          /\ op = "await_aim" => result' = Ok(Unit)]_vars

\* component 2 was aimed at -90 and returned at the first poll, which
\* reported 270
C28_Witness ==
    /\ Returned /\ op = "await_aim" /\ result = Ok(Unit)
    /\ args.component_id = 2 /\ args.slack > 0
    /\ Sent[1].req = MsgAngle(-900)
    /\ polls = <<2700>>
    /\ Len(Sent) = 2

\* C29: with a slack of 0 or less at_rotation answers Ok(false) to every
\* reported angle, the target included; await_aim sleeps after every state
\* report and returns, if at all, with an error.
C29_NoSlackNeverReached ==
    [][/\ (\E a \in ReportedAngles : StateReports(a) /\ args.slack <= 0) =>
            /\ op = "at_rotation" => (pc' = "idle" /\ result' = Ok(FALSE))
            /\ op = "await_aim" => (pc' = "sleep" /\ result' = NoResult)
       /\ (pc' = "idle" /\ op' = "await_aim" /\ args'.slack <= 0) => IsErr(result')]_vars

\* at_rotation with slack 0 said false to the very angle it asked about
C29_Witness ==
    /\ Returned /\ op = "at_rotation"
    /\ args.slack = 0
    /\ received = Response("RState", [angle |-> Local])
    /\ result = Ok(FALSE)

\* C30: every request of await_component(c) is a component-status query for
\* c, every request of await_module(m) is a module-status query for the id
\* of m, and the ids of the modules are 0 to 8 in the order of the enum.
C30_PollsItsEntity ==
    /\ <<Teleporter, Radar, ForceField, Laser, Mine, Repair, Thruster, Scanner, GPS>>
          = <<0, 1, 2, 3, 4, 5, 6, 7, 8>>
    /\ op = "await_component" =>
          \A i \in DOMAIN Sent :
              Sent[i].req = [type |-> "MsgComponentStatusQuery",
                             component_id |-> args.component_id]
    /\ op = "await_module" =>
          \A i \in DOMAIN Sent :
              Sent[i].req = [type |-> "MsgModuleStatusQuery", module_id |-> args.module]

\* await_module(GPS) returned after asking three times for module 8
C30_Witness ==
    /\ Returned /\ op = "await_module" /\ args.module = GPS
    /\ Len(Sent) = 3
    /\ \A i \in 1..3 : Sent[i].req.module_id = 8


----------------------------------------------------------------------------
(* The object scan_for_bot returns *)

\* the places of the motherboards in the scan
BoardPlaces ==
    {i \in DOMAIN received.m.objects :
        /\ received.m.objects[i].tag = COMPONENT
        /\ received.m.objects[i].kind = MOTHERBOARD}

\* the first motherboard in scan order
FirstBoard ==
    received.m.objects[CHOOSE i \in BoardPlaces : \A j \in BoardPlaces : i <= j]

\* C31: every Ok(Some(obj)) of scan_for_bot has the tag bot and an empty
\* kind; with a motherboard in the scan obj has the position and the buffs
\* of the first motherboard in scan order, without one it has no buffs; and
\* scan_for_bot has sent exactly one request, an area scan.
C31_ResultShape ==
    (Returned /\ op = "scan_for_bot") =>
        /\ Sent = <<[ev |-> "send", req |-> MsgScan]>>
        /\ (IsOk(result) /\ result.val.some) =>
              /\ received.variant = "RScan"
              /\ result.val.obj.tag = BOT
              /\ result.val.obj.kind = ""
              /\ IF BoardPlaces # {}
                 THEN /\ result.val.obj.x = FirstBoard.x
                      /\ result.val.obj.y = FirstBoard.y
                      /\ result.val.obj.buffs = FirstBoard.buffs
                 ELSE result.val.obj.buffs = <<>>

\* two motherboards after a component with a buff: the first one's buffs
C31_Witness ==
    /\ Scanned /\ Cardinality(BoardPlaces) = 2
    /\ received.m.objects[1].kind # MOTHERBOARD
    /\ received.m.objects[1].buffs # <<>>
    /\ FirstBoard.buffs = <<"shield">>
    /\ result = Ok(Some(RMsgScanObject(36, 12, BOT, "", <<"shield">>)))

====
